---- MODULE Spec2Model ----
(***************************************************************************)
(* A model of fs-nextra's src/util.js: the recursive copy (ncp, startCopy, *)
(* copyDir, copyFile, copyLink), remove (rimraf, fixWinEPERM, removeDir,  *)
(* rmkids) and scan (scanDeep) engines, running as promise tasks over a    *)
(* filesystem.                                                             *)
(*                                                                         *)
(* A JavaScript string is a sequence of one-character strings, so that     *)
(* the string arithmetic of the code (replace, split, indexOf, dirname)    *)
(* is computed as the code computes it.                                    *)
(***************************************************************************)
EXTENDS Integers, Sequences, FiniteSets, TLC

(***************************************************************************)
(* Bounds of the model.                                                    *)
(***************************************************************************)
\* how many symbolic links one path lookup follows before ELOOP
MaxLinkHops == 2

\* how many entries the tree a copy starts from has below its root
MaxCopyEntries == 2

\* how many entries the tree a remove starts from has below its root
MaxRemoveEntries == 3

\* how many entries the tree a scan starts from has below its root
MaxScanEntries == 3

\* the largest depthLimit a scan is given
MaxDepthLimit == 2

\* how many paths the filter of a call rejects
MaxReject == 1

\* how many older entries the destination of a copy holds
MaxOldEntries == 1

\* how many entries the tree has below its root when the platform fails
MaxFailingEntries == 2

\* how many failures the platform answers the calls of one remove with,
\* besides the failure it answers every delete with
MaxFailures == 2

(***************************************************************************)
(* Values computed once.  the({F(x) : x \in {e}}) is F of the value of e:  *)
(* an operator that uses an argument more than once names its value this   *)
(* way, so that the argument is computed once.                             *)
(***************************************************************************)
the(S) == CHOOSE v \in S : TRUE

(***************************************************************************)
(* JavaScript strings.                                                     *)
(***************************************************************************)
MinOf(S) == the({(CHOOSE x \in T : \A y \in T : x <= y) : T \in {S}})

MaxOf(S) == the({(CHOOSE x \in T : \A y \in T : x >= y) : T \in {S}})

\* s.slice(from) with a 0-based index
sliceFrom(s, from) == the({SubSeq(x, from + 1, Len(x)) : x \in {s}})

\* s.slice(from, to) with 0-based indexes, to exclusive
slice(s, from, to) == SubSeq(s, from + 1, to)

\* whether sub occurs in s at the 0-based index i
occursAt(s, sub, i) ==
    /\ i + Len(sub) <= Len(s)
    /\ SubSeq(s, i + 1, i + Len(sub)) = sub

firstOf(hits) == the({IF h = {} THEN -1 ELSE MinOf(h) : h \in {hits}})

\* String.prototype.indexOf: the first 0-based index of sub in s, or -1
indexOf(s, sub) ==
    the({firstOf({i \in 0..Len(x) : occursAt(x, y, i)}) : x \in {s}, y \in {sub}})

\* String.prototype.split with a non-empty string separator; splitAt is
\* split with i the index of the first separator
RECURSIVE split(_, _)
splitAt(s, d, i) ==
    IF i = -1 THEN <<s>>
    ELSE <<slice(s, 0, i)>> \o split(sliceFrom(s, i + Len(d)), d)

split(s, d) ==
    the({splitAt(x, y, i) : x \in {s}, y \in {d}, i \in {indexOf(s, d)}})

\* Array.prototype.join with the separator d
RECURSIVE joinWith(_, _)
joinWith(parts, d) ==
    the({IF Len(ps) = 0 THEN <<>>
         ELSE IF Len(ps) = 1 THEN ps[1]
         ELSE ps[1] \o y \o joinWith(Tail(ps), y) : ps \in {parts}, y \in {d}})

\* the backtick character, which a TLA+ string literal cannot hold
backtick == "BACKTICK"

\* GetSubstitution of String.prototype.replace for a pattern without capture
\* groups: dollar-dollar is a dollar sign, dollar-ampersand the match,
\* dollar-backtick the text before the match, dollar-quote the text after
\* it; any other character stands for itself.
RECURSIVE getSubstitution(_, _, _, _)
substitution(repl, matched, before, after) ==
    IF Len(repl) = 0 THEN <<>>
    ELSE IF repl[1] = "$" /\ Len(repl) >= 2 /\ repl[2] \in {"$", "&", backtick, "'"}
    THEN (CASE repl[2] = "$" -> <<"$">>
            [] repl[2] = "&" -> matched
            [] repl[2] = backtick -> before
            [] OTHER         -> after)
         \o getSubstitution(sliceFrom(repl, 2), matched, before, after)
    ELSE <<repl[1]>> \o getSubstitution(Tail(repl), matched, before, after)

getSubstitution(repl, matched, before, after) ==
    the({substitution(r, m, b, a) :
             r \in {repl}, m \in {matched}, b \in {before}, a \in {after}})

\* replace with i the index of the first occurrence of pat
replaceAt(s, pat, repl, i) ==
    IF i = -1 THEN s
    ELSE slice(s, 0, i)
         \o getSubstitution(repl, pat, slice(s, 0, i), sliceFrom(s, i + Len(pat)))
         \o sliceFrom(s, i + Len(pat))

\* String.prototype.replace(pattern, replacement) with a string pattern: the
\* first occurrence only, the replacement read as a replacement pattern
replace(s, pat, repl) ==
    the({replaceAt(x, y, z, i) :
             x \in {s}, y \in {pat}, z \in {repl}, i \in {indexOf(s, pat)}})

\* String.prototype.replace(/c/g, replacement) for a one-character regular
\* expression: every occurrence, the replacement read as a pattern; done is
\* the text before s
RECURSIVE replaceAllChar(_, _, _, _)
replaceAllFrom(s, c, repl, done) ==
    IF Len(s) = 0 THEN <<>>
    ELSE (IF s[1] = c
          THEN getSubstitution(repl, <<c>>, done, Tail(s))
          ELSE <<s[1]>>)
         \o replaceAllChar(Tail(s), c, repl, done \o <<s[1]>>)

replaceAllChar(s, c, repl, done) ==
    the({replaceAllFrom(x, c, z, b) : x \in {s}, z \in {repl}, b \in {done}})

(***************************************************************************)
(* The path module (posix).                                                *)
(***************************************************************************)
sep == <<"/">>

isAbsolute(p) == the({Len(x) > 0 /\ x[1] = "/" : x \in {p}})

\* normalizeString, one segment: drops an empty or "." segment, resolves ".."
normalizePart(acc, c, allowAboveRoot) ==
    IF c = <<>> \/ c = <<".">> THEN acc
    ELSE IF c = <<".", ".">>
    THEN IF Len(acc) > 0 /\ acc[Len(acc)] # <<".", ".">>
         THEN SubSeq(acc, 1, Len(acc) - 1)
         ELSE IF allowAboveRoot THEN Append(acc, c) ELSE acc
    ELSE Append(acc, c)

RECURSIVE normalizeParts(_, _, _)
normalizeParts(parts, acc, allowAboveRoot) ==
    the({IF Len(ps) = 0 THEN a
         ELSE normalizeParts(Tail(ps), normalizePart(a, ps[1], w), w) :
             ps \in {parts}, a \in {acc}, w \in {allowAboveRoot}})

normalizeString(p, allowAboveRoot) ==
    joinWith(normalizeParts(split(p, sep), <<>>, allowAboveRoot), sep)

\* process.cwd()
cwd == <<"/">>

\* path.resolve(from, to)
resolve2(from, to) ==
    the({sep \o normalizeString(IF isAbsolute(y) THEN y
                                ELSE IF isAbsolute(x) THEN x \o sep \o y
                                ELSE cwd \o sep \o x \o sep \o y,
                                FALSE) : x \in {from}, y \in {to}})

\* path.resolve(p)
resolve(p) == resolve2(cwd, p)

\* path.normalize(p), with body the normalized segments of p
normalizeWith(p, body) ==
    (IF isAbsolute(p) THEN sep ELSE <<>>)
    \o (IF Len(body) = 0 /\ ~isAbsolute(p) THEN <<".">> ELSE body)
    \o (IF (Len(body) > 0 \/ ~isAbsolute(p)) /\ p[Len(p)] = "/" THEN sep ELSE <<>>)

\* path.normalize(p)
normalize(p) ==
    the({IF Len(x) = 0 THEN <<".">> ELSE normalizeWith(x, body) :
             x \in {p}, body \in {normalizeString(p, ~isAbsolute(p))}})

\* path.join(a, b)
join(a, b) ==
    the({IF Len(x) = 0 /\ Len(y) = 0 THEN <<".">>
         ELSE normalize(IF Len(x) = 0 THEN y
                        ELSE IF Len(y) = 0 THEN x
                        ELSE x \o sep \o y) : x \in {a}, y \in {b}})

\* path.dirname(p), with ends the indexes of the slashes that end a segment
\* before the last
dirnameAt(p, ends) ==
    IF ends = {} THEN (IF p[1] = "/" THEN <<"/">> ELSE <<".">>)
    ELSE IF p[1] = "/" /\ MaxOf(ends) = 1 THEN <<"/", "/">>
    ELSE slice(p, 0, MaxOf(ends))

\* the indexes of the slashes of p that have a character other than a slash
\* somewhere after them
segmentEnds(p) ==
    {i \in 1..(Len(p) - 1) :
         /\ p[i + 1] = "/"
         /\ \E j \in (i + 1)..(Len(p) - 1) : p[j + 1] # "/"}

\* path.dirname(p)
dirname(p) ==
    the({IF Len(x) = 0 THEN <<".">> ELSE dirnameAt(x, ends) :
             x \in {p}, ends \in {segmentEnds(p)}})

\* path.basename(p), with end the index after its last character
basenameTo(p, end, slashes) ==
    slice(p, IF slashes = {} THEN 0 ELSE MaxOf(slashes) + 1, end)

basenameOf(p, solid) ==
    IF solid = {} THEN <<>>
    ELSE basenameTo(p, MaxOf(solid) + 1,
                    {i \in 0..MaxOf(solid) : p[i + 1] = "/"})

\* path.basename(p)
basename(p) ==
    the({basenameOf(x, {i \in 0..(Len(x) - 1) : x[i + 1] # "/"}) : x \in {p}})

(***************************************************************************)
(* The filesystem: a map from the absolute path of every existing entry to *)
(* the entry.  The root directory is always present.                       *)
(***************************************************************************)
\* the content of a file is a string
File(c, m) == [kind |-> "file", content |-> c, target |-> <<>>, mode |-> m]

Dir(m) == [kind |-> "dir", content |-> <<>>, target |-> <<>>, mode |-> m]

Link(t) == [kind |-> "link", content |-> <<>>, target |-> t, mode |-> "777"]

NoStats == [kind |-> "none", content |-> <<>>, target |-> <<>>, mode |-> ""]

\* the non-empty segments of a path
components(p) == SelectSeq(split(p, sep), LAMBDA c : c # <<>>)

\* Path lookup: walks the segments rest from the directory cur, following a
\* symbolic link in the middle of the path, and at its end when followLast;
\* walkTo is walk with next the path of the first segment.  The result is
\* the entry's path, or the error, the path that failed, and whether that
\* was the last segment.
RECURSIVE walk(_, _, _, _, _)
walkTo(f, cur, rest, followLast, hops, next) ==
    IF f[cur].kind # "dir"
    THEN [err |-> "ENOTDIR", path |-> next, last |-> Len(rest) = 1]
    ELSE IF next \notin DOMAIN f
    THEN [err |-> "ENOENT", path |-> next, last |-> Len(rest) = 1]
    ELSE IF f[next].kind = "link" /\ (Len(rest) > 1 \/ followLast)
    THEN IF hops = 0 THEN [err |-> "ELOOP", path |-> next, last |-> Len(rest) = 1]
         ELSE walk(f, sep,
                   components(resolve2(cur, f[next].target)) \o Tail(rest),
                   followLast, hops - 1)
    ELSE walk(f, next, Tail(rest), followLast, hops)

walk(f, cur, rest, followLast, hops) ==
    the({IF Len(r) = 0 THEN [err |-> "", path |-> c, last |-> TRUE]
         ELSE walkTo(f, c, r, followLast, h, join(c, r[1])) :
             c \in {cur}, r \in {rest}, h \in {hops}})

namei(f, p, followLast) ==
    the({walk(g, sep, components(resolve(p)), followLast, MaxLinkHops) : g \in {f}})

without(f, p) == [q \in DOMAIN f \ {p} |-> f[q]]

\* p is strictly inside the directory d
inside(p, d) == Len(p) > Len(d) + 1 /\ SubSeq(p, 1, Len(d) + 1) = d \o sep

\* f once the entry at p, with all that is inside it, has gone
vanished(f, p) == [q \in {x \in DOMAIN f : x # p /\ ~inside(x, p)} |-> f[q]]

\* the names in the directory whose canonical path is d
entriesOf(f, d) == {basename(q) : q \in {r \in DOMAIN f : r # d /\ dirname(r) = d}}

\* the process's umask (022) applied to a mode
umask(m) == IF m = "777" THEN "755" ELSE m

\* each call below is its name with r the lookup of its path
statAt(f, r) ==
    IF r.err # "" THEN [err |-> r.err, stats |-> NoStats]
    ELSE [err |-> "", stats |-> f[r.path]]

lstat(f, p) == the({statAt(g, r) : g \in {f}, r \in {namei(f, p, FALSE)}})

stat(f, p) == the({statAt(g, r) : g \in {f}, r \in {namei(f, p, TRUE)}})

readdirAt(f, r) ==
    IF r.err # "" THEN [err |-> r.err, files |-> {}]
    ELSE IF f[r.path].kind # "dir" THEN [err |-> "ENOTDIR", files |-> {}]
    ELSE [err |-> "", files |-> entriesOf(f, r.path)]

readdir(f, p) == the({readdirAt(g, r) : g \in {f}, r \in {namei(f, p, TRUE)}})

readlinkAt(f, r) ==
    IF r.err # "" THEN [err |-> r.err, link |-> <<>>]
    ELSE IF f[r.path].kind # "link" THEN [err |-> "EINVAL", link |-> <<>>]
    ELSE [err |-> "", link |-> f[r.path].target]

readlink(f, p) == the({readlinkAt(g, r) : g \in {f}, r \in {namei(f, p, FALSE)}})

\* a new entry e where the lookup r ended: nothing may be there, and the
\* directory it goes in must exist
creatAt(f, r, e) ==
    IF r.err = "" THEN [err |-> "EEXIST", fs |-> f]
    ELSE IF r.err = "ENOENT" /\ r.last THEN [err |-> "", fs |-> f @@ (r.path :> e)]
    ELSE [err |-> r.err, fs |-> f]

mkdir(f, p, m) ==
    the({creatAt(g, r, Dir(umask(m))) : g \in {f}, r \in {namei(f, p, FALSE)}})

symlink(f, t, p) ==
    the({creatAt(g, r, Link(t)) : g \in {f}, r \in {namei(f, p, FALSE)}})

chmodAt(f, r, m) ==
    IF r.err # "" THEN [err |-> r.err, fs |-> f]
    ELSE [err |-> "", fs |-> [f EXCEPT ![r.path].mode = m]]

chmod(f, p, m) == the({chmodAt(g, r, m) : g \in {f}, r \in {namei(f, p, TRUE)}})

unlinkAt(f, r) ==
    IF r.err # "" THEN [err |-> r.err, fs |-> f]
    ELSE IF f[r.path].kind = "dir" THEN [err |-> "EISDIR", fs |-> f]
    ELSE [err |-> "", fs |-> without(f, r.path)]

unlink(f, p) == the({unlinkAt(g, r) : g \in {f}, r \in {namei(f, p, FALSE)}})

rmdirAt(f, r, notEmpty) ==
    IF r.err # "" THEN [err |-> r.err, fs |-> f]
    ELSE IF f[r.path].kind # "dir" THEN [err |-> "ENOTDIR", fs |-> f]
    ELSE IF entriesOf(f, r.path) # {} THEN [err |-> notEmpty, fs |-> f]
    ELSE IF r.path = sep THEN [err |-> "EBUSY", fs |-> f]
    ELSE [err |-> "", fs |-> without(f, r.path)]

rmdir(f, p, notEmpty) ==
    the({rmdirAt(g, r, notEmpty) : g \in {f}, r \in {namei(f, p, FALSE)}})

\* fs.copyFile with s and d the lookups of its source and destination:
\* replaces the content of the destination, creating it with the mode of the
\* source when it does not exist
copyFileAt(f, s, d) ==
    IF s.err # "" THEN [err |-> s.err, fs |-> f]
    ELSE IF f[s.path].kind # "file" THEN [err |-> "EISDIR", fs |-> f]
    ELSE IF d.err = ""
    THEN IF f[d.path].kind # "file" THEN [err |-> "EISDIR", fs |-> f]
         ELSE [err |-> "", fs |-> [f EXCEPT ![d.path].content = f[s.path].content]]
    ELSE creatAt(f, d, File(f[s.path].content, umask(f[s.path].mode)))

fsCopyFile(f, src, dest) ==
    the({copyFileAt(g, s, d) :
             g \in {f}, s \in {namei(f, src, TRUE)}, d \in {namei(f, dest, TRUE)}})

(***************************************************************************)
(* The state.                                                              *)
(***************************************************************************)
VARIABLES
    fs,        \* the filesystem
    fs0,       \* the filesystem when the running call was made
    tasks,     \* the promise tasks of the running call; tasks[1] is the call
    options,   \* the options object of the running call, as ncp fills it
    script,    \* the calls the caller makes, in order
    ci,        \* the number of calls made so far
    outcomes,  \* how each earlier call ended, and the filesystem it started from
    results,   \* the Map each scan call has filled, by call number
    platform   \* isWindows, the code rmdir gives for a non-empty directory,
               \* and the failures the platform answers the calls of a remove
               \* with: how many more it may, and the one that every delete gets

vars == <<fs, fs0, tasks, options, script, ci, outcomes, results, platform>>

(***************************************************************************)
(* Promise tasks.  A task is one call of startCopy, remove or scanDeep,    *)
(* with the functions it returns through; pc names the await it is         *)
(* suspended at.  A task settles (st becomes ok or err) in the step that   *)
(* runs its last continuation, and the tasks awaiting it through           *)
(* Promise.all react in the same step, as promise reactions run before     *)
(* the next I/O callback.                                                  *)
(***************************************************************************)
newTask(fn, path, parent, level) ==
    [fn |-> fn, path |-> path, target |-> <<>>, level |-> level, pc |-> "",
     parent |-> parent, st |-> "run", err |-> "", kind |-> "", mode |-> "",
     resolvedPath |-> <<>>, originalEr |-> "null",
     cont |-> "", recovery |-> "", recoveries |-> 0,
     er |-> "", erOp |-> "", attempts |-> 0]

at(t, fn, pc) ==
    /\ t \in 1..Len(tasks)
    /\ tasks[t].st = "run"
    /\ tasks[t].fn = fn
    /\ tasks[t].pc = pc

resolved(task) == [task EXCEPT !.st = "ok", !.pc = "done"]

\* nextra/remove: a path that is absent is removed already
removeCatch(task, e) ==
    IF e = "ENOENT" THEN resolved(task)
    ELSE [task EXCEPT !.st = "err", !.err = e, !.pc = "done"]

rejected(task, e) ==
    IF task.fn = "remove"
    THEN removeCatch([task EXCEPT !.recovery = IF @ = "run" THEN "err" ELSE @], e)
    ELSE [task EXCEPT !.st = "err", !.err = e, !.pc = "done"]

kids(ts, t) == {c \in 1..Len(ts) : ts[c].parent = t}

\* the continuation of the Promise.all a task awaits, once every child has
\* resolved: rmkids goes on to rmdir, copyDir and scanDeep return
afterAll(task) ==
    IF task.fn = "remove" THEN [task EXCEPT !.pc = "rmdir2"] ELSE resolved(task)

\* Promise.all with bad the children that have rejected: rejects as soon as
\* one of its promises rejects, with that rejection; resolves when all have
\* resolved
promiseAllOf(ts, t, bad) ==
    IF bad # {} THEN rejected(ts[t], ts[CHOOSE c \in bad : TRUE].err)
    ELSE IF \A c \in kids(ts, t) : ts[c].st = "ok" THEN afterAll(ts[t])
    ELSE ts[t]

promiseAll(ts, t) == promiseAllOf(ts, t, {c \in kids(ts, t) : ts[c].st = "err"})

\* the tasks whose Promise.all has a reaction due
due(ts) ==
    {t \in 1..Len(ts) : /\ ts[t].st = "run"
                        /\ ts[t].pc = "all"
                        /\ promiseAll(ts, t) # ts[t]}

\* runs the promise reactions that are due
RECURSIVE settle(_)
settle(ts) ==
    the({IF d = {} THEN x
         ELSE settle(the({[x EXCEPT ![t] = promiseAll(x, t)] : t \in {CHOOSE t \in d : TRUE}})) :
             x \in {ts}, d \in {due(ts)}})

\* a set as a sequence, in some fixed order
RECURSIVE seqOf(_)
seqOf(S) ==
    the({IF T = {} THEN <<>>
         ELSE the({<<x>> \o seqOf(T \ {x}) : x \in {CHOOSE x \in T : TRUE}}) :
             T \in {S}})

\* every order of a set
ordersOf(S) ==
    UNION {{o \in [1..Cardinality(T) -> T] : \A i, j \in DOMAIN o : o[i] = o[j] => i = j} :
               T \in {S}}

\* task t goes on as task, the filesystem becomes f and the tasks in spawned
\* start; cost is 1 when the platform answered with one of the failures it
\* may answer with
step(t, task, f, spawned, cost) ==
    /\ tasks' = settle([tasks EXCEPT ![t] = task] \o spawned)
    /\ fs' = f
    /\ platform' = [platform EXCEPT !.faults = @ - cost]
    /\ UNCHANGED <<fs0, options, script, ci, outcomes, results>>

proceed(t, task, f, spawned) == step(t, task, f, spawned, 0)

(***************************************************************************)
(* Copy.                                                                   *)
(***************************************************************************)
\* task t goes on as next unless the call whose result is r failed
after(t, r, next) ==
    proceed(t, IF r.err # "" THEN rejected(tasks[t], r.err) ELSE next, r.fs, <<>>)

\* replaceEsc, line 153
replaceEsc(str) == replaceAllChar(str, "$", <<"$", "$">>, <<>>)

\* isSrcKid, lines 159-161, src and dest resolved: reading element 1 of a
\* split that has one element gives undefined, whose split throws, and the
\* catch returns false
isSrcKidOf(src, dest, parts) ==
    /\ src # dest
    /\ indexOf(dest, src) > -1
    /\ IF Len(parts) < 2 THEN FALSE
       ELSE split(parts[2], sep)[1] = basename(src)

\* isSrcKid, lines 155-165
isSrcKid(src, dest) ==
    the({isSrcKidOf(s, d, parts) :
             s \in {resolve(src)}, d \in {resolve(dest)},
             parts \in {split(resolve(dest), dirname(resolve(src)) \o sep)}})

\* isWritable, line 95
isWritable(f, myPath) == lstat(f, myPath).err = "ENOENT"

\* ncp, lines 98-102: the options object as ncp fills it
ncpOptions(source, dest, o) ==
    [o EXCEPT !.currentPath = resolve2(cwd, source),
              !.targetPath  = resolve2(cwd, dest),
              !.overwrite   = IF o.overwrite = "unset" THEN "true" ELSE o.overwrite]

\* a copy that does not ask its filter
copyFilterIgnored(o, mySource) == TRUE

\* the filter of a copy: options.filter(mySource, options.targetPath)
copyFilter(o, mySource) == mySource \notin o.reject

\* startCopy up to its first await, lines 107-109
startCopyCall(mySource, o, parent) ==
    IF ~copyFilter(o, mySource)
    THEN resolved(newTask("startCopy", mySource, parent, 0))
    ELSE [newTask("startCopy", mySource, parent, 0) EXCEPT !.pc = "stat"]

\* startCopy, line 110
targetOf(mySource, o) == replace(mySource, o.currentPath, replaceEsc(o.targetPath))

\* startCopy after its stat, lines 110-122, with copyDir up to its first
\* await, line 126
startCopyStat(task, r, target) ==
    IF r.err # "" THEN rejected(task, r.err)
    ELSE IF r.stats.kind = "dir"
    THEN IF isSrcKid(task.path, target)
         THEN rejected(task, "CyclicCopy")
         ELSE [task EXCEPT !.target = target, !.mode = r.stats.mode,
                           !.pc = "copyDir.isWritable"]
    ELSE IF r.stats.kind \in {"file", "link"}
    THEN [task EXCEPT !.target = target, !.kind = r.stats.kind,
                      !.pc = "stat.target"]
    ELSE rejected(task, "UnknownError")

StartCopy(t) ==
    /\ at(t, "startCopy", "stat")
    /\ \E r \in {IF options.dereference THEN stat(fs, tasks[t].path)
                 ELSE lstat(fs, tasks[t].path)},
          target \in {targetOf(tasks[t].path, options)} :
           proceed(t, startCopyStat(tasks[t], r, target), fs, <<>>)

\* startCopy after the stat of the target, lines 115-120, with copyFile and
\* copyLink up to their first await
startCopyLeaf(task, tstats) ==
    [task EXCEPT !.target = IF tstats.err = "" /\ tstats.stats.kind = "dir"
                            THEN join(task.target, basename(task.path))
                            ELSE task.target,
                 !.pc = IF task.kind = "link" THEN "copyLink.readlink"
                        ELSE "copyFile.isWritable"]

StartCopyLeaf(t) ==
    /\ at(t, "startCopy", "stat.target")
    /\ \E tstats \in {stat(fs, tasks[t].target)} :
           proceed(t, startCopyLeaf(tasks[t], tstats), fs, <<>>)

\* copyDir, lines 127-128
CopyDirIsWritable(t) ==
    /\ at(t, "startCopy", "copyDir.isWritable")
    /\ proceed(t, [tasks[t] EXCEPT !.pc = IF isWritable(fs, tasks[t].target)
                                          THEN "copyDir.mkdir"
                                          ELSE "copyDir.readdir"],
               fs, <<>>)

\* copyDir, lines 128-129
CopyDirMkdir(t) ==
    /\ at(t, "startCopy", "copyDir.mkdir")
    /\ \E r \in {mkdir(fs, tasks[t].target, tasks[t].mode)} :
           after(t, r, [tasks[t] EXCEPT !.pc = "copyDir.chmod"])

\* copyDir, lines 129-131
CopyDirChmod(t) ==
    /\ at(t, "startCopy", "copyDir.chmod")
    /\ \E r \in {chmod(fs, tasks[t].target, tasks[t].mode)} :
           after(t, r, [tasks[t] EXCEPT !.pc = "copyDir.readdir"])

\* copyDir, line 132: one startCopy per item, in the order of items
copyDirItems(t, items) ==
    [i \in 1..Len(items) |-> startCopyCall(join(tasks[t].path, items[i]), options, t)]

\* copyDir, lines 131-132: the startCopy calls are all awaited together
CopyDirReaddir(t) ==
    /\ at(t, "startCopy", "copyDir.readdir")
    /\ \E r \in {readdir(fs, tasks[t].path)} :
         \E items \in {seqOf(r.files)} :
           proceed(t, IF r.err # "" THEN rejected(tasks[t], r.err)
                      ELSE [tasks[t] EXCEPT !.pc = "all"],
                   fs, copyDirItems(t, items))

\* copyFile after isWritable, lines 136-139
copyFilePolicy(task, writable, o) ==
    IF writable THEN [task EXCEPT !.pc = "copyFile.copyFile"]
    ELSE IF o.overwrite = "true" THEN [task EXCEPT !.pc = "copyFile.unlink"]
    ELSE IF o.errorOnExist THEN rejected(task, "AlreadyExists")
    ELSE resolved(task)

CopyFileIsWritable(t) ==
    /\ at(t, "startCopy", "copyFile.isWritable")
    /\ proceed(t, copyFilePolicy(tasks[t], isWritable(fs, tasks[t].target), options),
               fs, <<>>)

\* copyFile, line 137: unlink, then copyFile
CopyFileUnlink(t) ==
    /\ at(t, "startCopy", "copyFile.unlink")
    /\ \E r \in {unlink(fs, tasks[t].target)} :
           after(t, r, [tasks[t] EXCEPT !.pc = "copyFile.copyFile"])

\* copyFile, lines 136 and 137: the copy itself
CopyFileCopyFile(t) ==
    /\ at(t, "startCopy", "copyFile.copyFile")
    /\ \E r \in {fsCopyFile(fs, tasks[t].path, tasks[t].target)} :
           after(t, r, resolved(tasks[t]))

\* copyLink, lines 144 and 147: what the text of a link is compared as
linkPath(link, o) == IF o.dereference THEN resolve2(cwd, link) ELSE link

\* copyLink, lines 143-145, r the result of readlink
copyLinkResolved(task, r, o) ==
    IF r.err # "" THEN rejected(task, r.err)
    ELSE [task EXCEPT !.resolvedPath = linkPath(r.link, o),
                      !.pc = "copyLink.isWritable"]

CopyLinkReadlink(t) ==
    /\ at(t, "startCopy", "copyLink.readlink")
    /\ \E r \in {readlink(fs, tasks[t].path)} :
           proceed(t, copyLinkResolved(tasks[t], r, options), fs, <<>>)

\* copyLink, lines 145-146
CopyLinkIsWritable(t) ==
    /\ at(t, "startCopy", "copyLink.isWritable")
    /\ proceed(t, [tasks[t] EXCEPT !.pc = IF isWritable(fs, tasks[t].target)
                                          THEN "copyLink.symlink"
                                          ELSE "copyLink.readlink.target"],
               fs, <<>>)

\* copyLink, lines 146-149, r the result of readlink
copyLinkCompare(task, r, o) ==
    IF r.err # "" THEN rejected(task, r.err)
    ELSE IF linkPath(r.link, o) = task.resolvedPath THEN resolved(task)
    ELSE [task EXCEPT !.pc = "copyLink.unlink"]

CopyLinkReadlinkTarget(t) ==
    /\ at(t, "startCopy", "copyLink.readlink.target")
    /\ \E r \in {readlink(fs, tasks[t].target)} :
           proceed(t, copyLinkCompare(tasks[t], r, options), fs, <<>>)

\* copyLink, lines 149-150
CopyLinkUnlink(t) ==
    /\ at(t, "startCopy", "copyLink.unlink")
    /\ \E r \in {unlink(fs, tasks[t].target)} :
           after(t, r, [tasks[t] EXCEPT !.pc = "copyLink.symlink"])

\* copyLink, lines 145 and 150: the symlink itself
CopyLinkSymlink(t) ==
    /\ at(t, "startCopy", "copyLink.symlink")
    /\ \E r \in {symlink(fs, tasks[t].resolvedPath, tasks[t].target)} :
           after(t, r, resolved(tasks[t]))

(***************************************************************************)
(* Remove.                                                                 *)
(***************************************************************************)
\* The failures of the platform.  A call on a path that does not lead to
\* an entry fails as the lookup does.  A call on an entry gets its result, or
\* one of the failures of its kind while the platform may still fail, or,
\* for a delete, the failure the platform answers every delete with.  A
\* chmod or a stat that finds the entry absent: the entry has just gone.
Failures(op) ==
    CASE op = "lstat"   -> {"EPERM", "EIO"}
      [] op = "unlink"  -> {"EPERM", "EIO"}
      [] op = "rmdir"   -> {"EPERM", "EBUSY", "ENOTDIR", "EIO"}
      [] op = "readdir" -> {"EIO"}
      [] op = "chmod"   -> {"ENOENT", "EIO"}
      [] op = "stat"    -> {"ENOENT", "EIO"}

\* an answer: the error, the stats or the files of the call, the
\* filesystem after it, and whether it is a failure of the platform
answer(op, real, f, cost) ==
    [err |-> real.err,
     stats |-> IF op \in {"lstat", "stat"} THEN real.stats ELSE NoStats,
     files |-> IF op = "readdir" THEN real.files ELSE {},
     fs |-> f, cost |-> cost]

failure(e, f, p, cost) ==
    [err |-> e, stats |-> NoStats, files |-> {},
     fs |-> IF e = "ENOENT" THEN vanished(f, p) ELSE f, cost |-> cost]

answersOf(op, real, f, p, plat) ==
    IF real.err # ""
    THEN {answer(op, real, f, 0)}
    ELSE IF plat.deleteError # "" /\ op \in {"unlink", "rmdir"}
    THEN {failure(plat.deleteError, f, p, 0)}
    ELSE {answer(op, real, IF op \in {"unlink", "rmdir", "chmod"} THEN real.fs ELSE f, 0)}
         \union (IF plat.faults > 0
                 THEN {failure(e, f, p, 1) : e \in Failures(op)}
                 ELSE {})

\* the answers the call op on the path p may get, real its result on fs
answers(op, real, p) ==
    UNION {answersOf(op, x, fs, q, platform) : x \in {real}, q \in {namei(fs, p, FALSE).path}}

\* the task that has got the answer a to its call op
noted(task, op, a) ==
    [task EXCEPT !.er = IF a.err # "" THEN a.err ELSE @,
                 !.erOp = IF a.err # "" THEN op ELSE @,
                 !.attempts = IF op \in {"unlink", "rmdir"} THEN @ + 1 ELSE @]

\* fixWinEPERM is called, lines 56 and 65: its result is the stats of
\* rimraf when called at line 56, and the result of rimraf at line 65
fixWinEPERMCall(task, er, cont) ==
    [task EXCEPT !.originalEr = er, !.pc = "fixWinEPERM.chmod", !.cont = cont,
                 !.recovery = "run", !.recoveries = @ + 1]

\* unlink, removeDir or rmkids has resolved: rimraf goes on at line 60 with
\* stats undefined when that was for the fixWinEPERM of line 56, and
\* resolves otherwise
returned(task) ==
    IF task.cont = "unlink"
    THEN [task EXCEPT !.pc = "unlink", !.cont = "", !.recovery = "ok"]
    ELSE resolved([task EXCEPT !.recovery = IF @ = "run" THEN "ok" ELSE @])

\* a rimraf that rethrows a bare error for the failure of lstat
rimrafLstatRethrowing(task, r, isWindows) ==
    IF r.err # "" THEN rejected(task, "Error")
    ELSE IF r.stats.kind = "dir"
    THEN [task EXCEPT !.originalEr = "null", !.pc = "removeDir.rmdir"]
    ELSE [task EXCEPT !.pc = "unlink"]

\* rimraf, lines 53-60, r the result of lstat
rimrafLstat(task, r, isWindows) ==
    IF r.err # ""
    THEN IF r.err = "EPERM" /\ isWindows
         THEN fixWinEPERMCall(task, r.err, "unlink")
         ELSE rejected(task, r.err)
    ELSE IF r.stats.kind = "dir"
    THEN [task EXCEPT !.originalEr = "null", !.pc = "removeDir.rmdir"]
    ELSE [task EXCEPT !.pc = "unlink"]

\* rimraf, lines 62-70: the catch of unlink
rimrafUnlinkCatch(task, er, isWindows) ==
    IF er = "EPERM"
    THEN IF isWindows
         THEN fixWinEPERMCall(task, er, "")
         ELSE [task EXCEPT !.originalEr = er, !.pc = "removeDir.rmdir"]
    ELSE IF er = "EISDIR"
    THEN [task EXCEPT !.originalEr = er, !.pc = "removeDir.rmdir"]
    ELSE rejected(task, er)

\* a fixWinEPERM that returns for every failure of chmod and of stat
fixWinEPERMCatchReturning(task, er) == returned(task)

\* fixWinEPERM, lines 76 and 77: the catch of chmod and of stat
fixWinEPERMCatch(task, er) ==
    rejected(task, IF er = "ENOENT" THEN "null" ELSE task.originalEr)

\* a removeDir that tries its rmdir again where it goes on to rmkids
removeDirRetrying(task, er) ==
    IF er \in {"ENOTEMPTY", "EEXIST", "EPERM"}
    THEN [task EXCEPT !.pc = "removeDir.rmdir"]
    ELSE IF er = "ENOTDIR" THEN rejected(task, task.originalEr)
    ELSE rejected(task, er)

\* a removeDir that takes a directory that is not empty for a failure
removeDirGivingUp(task, er) ==
    IF er = "EPERM" THEN [task EXCEPT !.pc = "rmkids.readdir"]
    ELSE IF er = "ENOTDIR" THEN rejected(task, task.originalEr)
    ELSE rejected(task, er)

\* removeDir, lines 82-86: the catch of rmdir
removeDirCatch(task, er) ==
    IF er \in {"ENOTEMPTY", "EEXIST", "EPERM"}
    THEN [task EXCEPT !.pc = "rmkids.readdir"]
    ELSE IF er = "ENOTDIR" THEN rejected(task, task.originalEr)
    ELSE rejected(task, er)

\* remove(path) up to its first await: rimraf's lstat
removeCall(myPath, parent) ==
    [newTask("remove", myPath, parent, 0) EXCEPT !.pc = "lstat"]

\* rimraf, lines 53-60
Rimraf(t) ==
    /\ at(t, "remove", "lstat")
    /\ \E a \in answers("lstat", lstat(fs, tasks[t].path), tasks[t].path) :
           step(t, rimrafLstat(noted(tasks[t], "lstat", a), a, platform.isWindows),
                a.fs, <<>>, a.cost)

\* rimraf, lines 62-70
RimrafUnlink(t) ==
    /\ at(t, "remove", "unlink")
    /\ \E a \in answers("unlink", unlink(fs, tasks[t].path), tasks[t].path) :
           step(t, IF a.err = "" THEN resolved(noted(tasks[t], "unlink", a))
                   ELSE rimrafUnlinkCatch(noted(tasks[t], "unlink", a), a.err,
                                          platform.isWindows),
                a.fs, <<>>, a.cost)

\* fixWinEPERM, line 76: chmod(myPath, 666), and 666 is 1232 in octal
FixWinEPERMChmod(t) ==
    /\ at(t, "remove", "fixWinEPERM.chmod")
    /\ \E a \in answers("chmod", chmod(fs, tasks[t].path, "1232"), tasks[t].path) :
           step(t, IF a.err = ""
                   THEN [noted(tasks[t], "chmod", a) EXCEPT !.pc = "fixWinEPERM.stat"]
                   ELSE fixWinEPERMCatch(noted(tasks[t], "chmod", a), a.err),
                a.fs, <<>>, a.cost)

\* fixWinEPERM, lines 77-78
FixWinEPERMStat(t) ==
    /\ at(t, "remove", "fixWinEPERM.stat")
    /\ \E a \in answers("stat", stat(fs, tasks[t].path), tasks[t].path) :
           step(t, IF a.err # ""
                   THEN fixWinEPERMCatch(noted(tasks[t], "stat", a), a.err)
                   ELSE [noted(tasks[t], "stat", a) EXCEPT
                             !.pc = IF a.stats.kind = "dir" THEN "removeDir.rmdir"
                                    ELSE "fixWinEPERM.unlink"],
                a.fs, <<>>, a.cost)

\* fixWinEPERM, line 79
FixWinEPERMUnlink(t) ==
    /\ at(t, "remove", "fixWinEPERM.unlink")
    /\ \E a \in answers("unlink", unlink(fs, tasks[t].path), tasks[t].path) :
           step(t, IF a.err = "" THEN returned(noted(tasks[t], "unlink", a))
                   ELSE rejected(noted(tasks[t], "unlink", a), a.err),
                a.fs, <<>>, a.cost)

\* removeDir, lines 82-86
RemoveDir(t) ==
    /\ at(t, "remove", "removeDir.rmdir")
    /\ \E a \in answers("rmdir", rmdir(fs, tasks[t].path, platform.notEmpty),
                        tasks[t].path) :
           step(t, IF a.err = "" THEN returned(noted(tasks[t], "rmdir", a))
                   ELSE removeDirCatch(noted(tasks[t], "rmdir", a), a.err),
                a.fs, <<>>, a.cost)

\* rmkids, line 91: one remove per file, in the order of files
rmkidsFiles(t, files) ==
    [i \in 1..Len(files) |-> removeCall(join(tasks[t].path, files[i]), t)]

\* rmkids, lines 89-92: the removes are all awaited together
Rmkids(t) ==
    /\ at(t, "remove", "rmkids.readdir")
    /\ \E a \in answers("readdir", readdir(fs, tasks[t].path), tasks[t].path) :
         \E files \in {seqOf(a.files)} :
           step(t, IF a.err # "" THEN rejected(noted(tasks[t], "readdir", a), a.err)
                   ELSE IF Len(files) = 0 THEN [tasks[t] EXCEPT !.pc = "rmdir2"]
                   ELSE [tasks[t] EXCEPT !.pc = "all"],
                a.fs, rmkidsFiles(t, files), a.cost)

\* rmkids, lines 90 and 92: the rmdir after the children
RmkidsRmdir(t) ==
    /\ at(t, "remove", "rmdir2")
    /\ \E a \in answers("rmdir", rmdir(fs, tasks[t].path, platform.notEmpty),
                        tasks[t].path) :
           step(t, IF a.err = "" THEN returned(noted(tasks[t], "rmdir", a))
                   ELSE rejected(noted(tasks[t], "rmdir", a), a.err),
                a.fs, <<>>, a.cost)

(***************************************************************************)
(* Scan.                                                                   *)
(***************************************************************************)
\* the filter of a scan, line 169: !options.filter || options.filter(stats, dir)
scanFilter(o, dir) == dir \notin o.reject

\* going into the entries at the depthLimit too
scanDescendsInclusive(stats, level, o) ==
    stats.kind = "dir" /\ (~o.hasDepthLimit \/ level <= o.depthLimit)

\* line 170: whether scanDeep goes into the entry
scanDescends(stats, level, o) ==
    stats.kind = "dir" /\ (~o.hasDepthLimit \/ level < o.depthLimit)

\* line 171: the level the i-th callback of map passes on, each callback
\* incrementing the level they share
childLevel(level, i) == level + i

scanDeepCall(dir, level, parent) ==
    [newTask("scanDeep", dir, parent, level) EXCEPT !.pc = "lstat"]

\* scanDeep, lines 168-170, r the result of lstat
scanDeepStat(task, r, o) ==
    IF r.err # "" THEN rejected(task, r.err)
    ELSE IF scanDescends(r.stats, task.level, o) THEN [task EXCEPT !.pc = "readdir"]
    ELSE resolved(task)

\* scanDeep, lines 168-170
ScanDeep(t) ==
    /\ at(t, "scanDeep", "lstat")
    /\ \E r \in {lstat(fs, tasks[t].path)} :
        /\ tasks' = settle([tasks EXCEPT ![t] = scanDeepStat(tasks[t], r, options)])
        /\ results' = IF r.err = "" /\ scanFilter(options, tasks[t].path)
                      THEN [results EXCEPT ![ci] = (tasks[t].path :> r.stats) @@ @]
                      ELSE results
        /\ UNCHANGED <<fs, fs0, options, script, ci, outcomes, platform>>

\* scanDeep, line 171: one scanDeep per part, in the order of parts
scanDeepParts(t, parts) ==
    [i \in 1..Len(parts) |->
         scanDeepCall(join(tasks[t].path, parts[i]), childLevel(tasks[t].level, i), t)]

\* scanDeep, line 171: the parts in the order readdir gives, the scanDeep
\* calls all awaited together
ScanDeepReaddir(t) ==
    /\ at(t, "scanDeep", "readdir")
    /\ \E r \in {readdir(fs, tasks[t].path)} :
         \E parts \in ordersOf(r.files) :
           proceed(t, IF r.err # "" THEN rejected(tasks[t], r.err)
                      ELSE [tasks[t] EXCEPT !.pc = "all"],
                   fs, scanDeepParts(t, parts))

(***************************************************************************)
(* The caller: makes the calls of the script one after the other, each     *)
(* once nothing of the one before is still running.                        *)
(***************************************************************************)
quiet == \A t \in 1..Len(tasks) : tasks[t].st # "run"

mayCall(op) ==
    /\ ci < Len(script)
    /\ script[ci + 1].op = op
    /\ quiet

called(task, o) ==
    /\ tasks' = settle(<<task>>)
    /\ options' = o
    /\ ci' = ci + 1
    /\ fs0' = fs
    /\ outcomes' = IF ci = 0 THEN outcomes
                   ELSE Append(outcomes, [st |-> tasks[1].st, err |-> tasks[1].err,
                                          fs0 |-> fs0])
    /\ UNCHANGED <<fs, script, results, platform>>

\* ncp, lines 97-104
Ncp ==
    /\ mayCall("copy")
    /\ \E o \in {ncpOptions(script[ci + 1].source, script[ci + 1].dest,
                              script[ci + 1].options)} :
           called(startCopyCall(o.currentPath, o, 0), o)

\* nextra/remove
Remove ==
    /\ mayCall("remove")
    /\ called(removeCall(script[ci + 1].source, 0), script[ci + 1].options)

\* a scan that starts scanDeep at level 0
Scan ==
    /\ mayCall("scan")
    /\ called(scanDeepCall(resolve(script[ci + 1].source), 0, 0),
              script[ci + 1].options)

NextCopy ==
    \/ Ncp
    \/ \E t \in 1..Len(tasks) : StartCopy(t)
    \/ \E t \in 1..Len(tasks) : StartCopyLeaf(t)
    \/ \E t \in 1..Len(tasks) : CopyDirIsWritable(t)
    \/ \E t \in 1..Len(tasks) : CopyDirMkdir(t)
    \/ \E t \in 1..Len(tasks) : CopyDirChmod(t)
    \/ \E t \in 1..Len(tasks) : CopyDirReaddir(t)
    \/ \E t \in 1..Len(tasks) : CopyFileIsWritable(t)
    \/ \E t \in 1..Len(tasks) : CopyFileUnlink(t)
    \/ \E t \in 1..Len(tasks) : CopyFileCopyFile(t)
    \/ \E t \in 1..Len(tasks) : CopyLinkReadlink(t)
    \/ \E t \in 1..Len(tasks) : CopyLinkIsWritable(t)
    \/ \E t \in 1..Len(tasks) : CopyLinkReadlinkTarget(t)
    \/ \E t \in 1..Len(tasks) : CopyLinkUnlink(t)
    \/ \E t \in 1..Len(tasks) : CopyLinkSymlink(t)

NextRemove ==
    \/ Remove
    \/ \E t \in 1..Len(tasks) : Rimraf(t)
    \/ \E t \in 1..Len(tasks) : RimrafUnlink(t)
    \/ \E t \in 1..Len(tasks) : RemoveDir(t)
    \/ \E t \in 1..Len(tasks) : Rmkids(t)
    \/ \E t \in 1..Len(tasks) : RmkidsRmdir(t)

NextRecovery ==
    \/ \E t \in 1..Len(tasks) : FixWinEPERMChmod(t)
    \/ \E t \in 1..Len(tasks) : FixWinEPERMStat(t)
    \/ \E t \in 1..Len(tasks) : FixWinEPERMUnlink(t)

NextScan ==
    \/ Scan
    \/ \E t \in 1..Len(tasks) : ScanDeep(t)
    \/ \E t \in 1..Len(tasks) : ScanDeepReaddir(t)

Next == NextCopy \/ NextRemove \/ NextRecovery \/ NextScan

(***************************************************************************)
(* The filesystems and calls the model starts from.                        *)
(***************************************************************************)
\* the absolute path with the one-character segments names
P(names) == sep \o joinWith([i \in DOMAIN names |-> <<names[i]>>], sep)

Range(q) == {q[i] : i \in DOMAIN q}

\* the names of the files, directories and links of a directory, each taken
\* in this order: a directory has g only beside f, and e only beside d
FileNames == <<"f", "g">>

DirNames == <<"d", "e">>

LinkNames == <<"l">>

kindOfName(n) ==
    IF n \in Range(FileNames) THEN "file"
    ELSE IF n \in Range(DirNames) THEN "dir"
    ELSE "link"

kindOfPath(p) == kindOfName(basename(p)[1])

\* the entries that may be added to the tree T below the directory R
additions(R, T) ==
    UNION {{join(p, <<ns[i]>>) :
                i \in {j \in 1..Len(ns) : j = 1 \/ join(p, <<ns[j - 1]>>) \in T}} :
           p \in {R} \union {q \in T : kindOfPath(q) = "dir"},
           ns \in {FileNames, DirNames, LinkNames}} \ T

\* the trees of at most n entries below the directory R, as sets of paths
RECURSIVE treesOf(_, _)
treesOf(R, n) ==
    IF n = 0 THEN {{}}
    ELSE LET prev == treesOf(R, n - 1)
         IN  prev \union UNION {{T \union {c} : c \in additions(R, T)} : T \in prev}

\* the subsets of at most n entries of the tree T below R that are trees
\* below R
subtreesOf(R, T, n) ==
    {S \in SUBSET T : /\ Cardinality(S) <= n
                      /\ \A p \in S : dirname(p) = R \/ dirname(p) \in S}

\* the targets the links of a tree have: a sibling, and a file one level up
LinkTargets == {<<"f">>, <<".", ".", "/", "k">>}

OldContent == <<"o", "l", "d">>

OldTarget == <<"o">>

\* the entry at p of a source tree: a file holds its own path
sourceEntry(p, linkTarget) ==
    IF kindOfPath(p) = "file" THEN File(p, "644")
    ELSE IF kindOfPath(p) = "dir" THEN Dir("777")
    ELSE Link(linkTarget)

\* the entry at p of a tree that is there before a copy
oldEntry(p, linkTarget) ==
    IF kindOfPath(p) = "file" THEN File(OldContent, "600")
    ELSE IF kindOfPath(p) = "dir" THEN Dir("700")
    ELSE Link(linkTarget)

\* p, a path below from, moved below to
rebase(p, from, to) == to \o sliceFrom(p, Len(from))

RECURSIVE parentsOf(_)
parentsOf(p) ==
    IF dirname(p) = sep THEN {} ELSE {dirname(p)} \union parentsOf(dirname(p))

\* a filesystem with the directories above the given roots, and a file /k
baseFs(roots) ==
    LET above == UNION {parentsOf(r) : r \in roots}
    IN  (sep :> Dir("755")) @@ (P(<<"k">>) :> File(P(<<"k">>), "644"))
        @@ [p \in above |-> Dir("755")]

sourceTree(R, T, linkTarget) ==
    (R :> Dir("777")) @@ [p \in T |-> sourceEntry(p, linkTarget)]

oldTree(R, T, linkTarget) ==
    (R :> Dir("700")) @@ [p \in T |-> oldEntry(p, linkTarget)]

DefaultOptions ==
    [reject |-> {}, overwrite |-> "unset", errorOnExist |-> FALSE,
     dereference |-> FALSE, hasDepthLimit |-> FALSE, depthLimit |-> 0,
     currentPath |-> <<>>, targetPath |-> <<>>]

copyOf(source, dest, o) == [op |-> "copy", source |-> source, dest |-> dest, options |-> o]

removeOf(path) == [op |-> "remove", source |-> path, dest |-> <<>>, options |-> DefaultOptions]

scanOf(path, o) == [op |-> "scan", source |-> path, dest |-> <<>>, options |-> o]

Posix == [isWindows |-> FALSE, notEmpty |-> "ENOTEMPTY", faults |-> 0, deleteError |-> ""]

starts(f, calls, plat) ==
    /\ fs = f
    /\ fs0 = f
    /\ tasks = <<>>
    /\ options = DefaultOptions
    /\ script = calls
    /\ ci = 0
    /\ outcomes = <<>>
    /\ results = [k \in 1..Len(calls) |-> <<>>]
    /\ platform = plat

\* the sets of at most MaxReject paths among S
rejects(S) == {r \in SUBSET S : Cardinality(r) <= MaxReject}

\* a remove, or two in a row, of a tree, a file, a link or an absent path
InitRemove ==
    \E T \in treesOf(P(<<"a">>), MaxRemoveEntries),
       root \in {"dir", "file", "link", "absent"},
       twice \in BOOLEAN,
       notEmpty \in {"ENOTEMPTY", "EEXIST"} :
        /\ root # "dir" => T = {} /\ notEmpty = "ENOTEMPTY"
        /\ starts(baseFs({P(<<"a">>)})
                  @@ (CASE root = "dir"  -> sourceTree(P(<<"a">>), T, <<"f">>)
                        [] root = "file" -> (P(<<"a">>) :> File(P(<<"a">>), "644"))
                        [] root = "link" -> (P(<<"a">>) :> Link(<<"k">>))
                        [] OTHER         -> <<>>),
                  IF twice THEN <<removeOf(P(<<"a">>)), removeOf(P(<<"a">>))>>
                  ELSE <<removeOf(P(<<"a">>))>>,
                  [Posix EXCEPT !.notEmpty = notEmpty])

\* a remove of a tree or of a file, on Windows or not, on a platform that
\* may answer calls with failures, or answers every delete with one
InitRecovery ==
    \E T \in treesOf(P(<<"a">>), MaxFailingEntries),
       root \in {"dir", "file"},
       isWindows \in BOOLEAN,
       deleteError \in {"", "EPERM", "ENOTEMPTY", "EEXIST"} :
        /\ root # "dir" => T = {}
        /\ starts(baseFs({P(<<"a">>)})
                  @@ (IF root = "dir" THEN sourceTree(P(<<"a">>), T, <<"f">>)
                      ELSE (P(<<"a">>) :> File(P(<<"a">>), "444"))),
                  <<removeOf(P(<<"a">>))>>,
                  [isWindows |-> isWindows, notEmpty |-> "ENOTEMPTY",
                   faults |-> MaxFailures, deleteError |-> deleteError])

\* a scan of a tree from level 0, with or without a depthLimit, and with or
\* without a filter when the depthLimit is 1 or more
InitScan ==
    \E T \in treesOf(P(<<"a">>), MaxScanEntries),
       limit \in -1..MaxDepthLimit :
        \E reject \in rejects(T \union {P(<<"a">>)}) :
            /\ reject # {} => limit >= 1
            /\ starts(baseFs({P(<<"a">>)}) @@ sourceTree(P(<<"a">>), T, <<"f">>),
                      <<scanOf(P(<<"a">>),
                               [DefaultOptions EXCEPT !.reject = reject,
                                                      !.hasDepthLimit = limit >= 0,
                                                      !.depthLimit = limit])>>,
                      Posix)

\* the roots copies are made from and to: at one level and at two
SourceRoots == {P(<<"a">>), P(<<"x", "a">>)}

\* a destination whose name is two dollar signs
Dollars == sep \o <<"$", "$">>

DestRoots == {P(<<"t">>), P(<<"x", "t">>), Dollars}

\* a copy, followed or not by a scan of its source and a scan of its
\* destination
copyThenScans(source, dest, o, scans) ==
    IF scans
    THEN <<copyOf(source, dest, o), scanOf(source, DefaultOptions),
           scanOf(dest, DefaultOptions)>>
    ELSE <<copyOf(source, dest, o)>>

\* a copy of a tree to a destination that is absent, with or without
\* dereference, and followed or not by the scans; or to a destination that is
\* a directory holding older entries under some of the names of the tree,
\* with overwrite by default or without it, and then with or without
\* errorOnExist
InitCopyTree ==
    \E src \in SourceRoots, dest \in DestRoots :
      \E T \in treesOf(src, MaxCopyEntries), hasDest \in BOOLEAN,
         overwrite \in {"unset", "false"},
         errorOnExist, dereference, sameTarget, scans \in BOOLEAN,
         linkTarget \in LinkTargets :
        \E old \in subtreesOf(src, T, MaxOldEntries) :
            /\ src = P(<<"x", "a">>) => dest = P(<<"t">>)
            /\ src = P(<<"x", "a">>) \/ dest # P(<<"t">>) => ~hasDest
            /\ dest = Dollars => ~dereference
            /\ ~hasDest => old = {} /\ overwrite = "unset"
            /\ overwrite = "unset" => ~errorOnExist
            /\ sameTarget => \E p \in old : kindOfPath(p) = "link"
            /\ dereference => ~hasDest
            /\ scans => ~hasDest /\ ~dereference
            /\ (\A p \in T : kindOfPath(p) # "link")
                   => linkTarget = <<"f">> /\ ~dereference
            /\ starts(baseFs({src, dest}) @@ sourceTree(src, T, linkTarget)
                      @@ (IF hasDest
                          THEN oldTree(dest, {rebase(p, src, dest) : p \in old},
                                       IF sameTarget THEN linkTarget ELSE OldTarget)
                          ELSE <<>>),
                      copyThenScans(src, dest,
                                    [DefaultOptions EXCEPT !.overwrite = overwrite,
                                                           !.errorOnExist = errorOnExist,
                                                           !.dereference = dereference],
                                    scans),
                      Posix)

\* the tree the filtered copies are made of: a file, and a directory that
\* holds a file
FilterTree(src) ==
    {join(src, <<"f">>), join(src, <<"d">>), join(src, <<"d", "/", "f">>)}

\* a copy with a filter, of a tree among those of FilterTree, to a
\* destination that is absent, or a directory holding older entries under
\* some of the names of the tree
InitCopyFilter ==
    \E dest \in {P(<<"t">>), Dollars} :
      \E T \in subtreesOf(P(<<"a">>), FilterTree(P(<<"a">>)), 3), hasDest \in BOOLEAN :
        \E old \in subtreesOf(P(<<"a">>), T, MaxOldEntries),
           reject \in rejects(T \union {P(<<"a">>)}) \ {{}} :
            /\ dest = Dollars => ~hasDest
            /\ ~hasDest => old = {}
            /\ starts(baseFs({P(<<"a">>), dest}) @@ sourceTree(P(<<"a">>), T, <<"f">>)
                      @@ (IF hasDest
                          THEN oldTree(dest, {rebase(p, P(<<"a">>), dest) : p \in old},
                                       OldTarget)
                          ELSE <<>>),
                      <<copyOf(P(<<"a">>), dest, [DefaultOptions EXCEPT !.reject = reject])>>,
                      Posix)

\* a copy of a directory to a path inside it, absent or a directory
InitCopyCycle ==
    \E src \in SourceRoots :
      \E T \in treesOf(src, MaxCopyEntries), sub \in {<<"s">>, <<"d">>, <<"d", "/", "s">>} :
        /\ dirname(join(src, sub)) \in T \union {src}
        /\ starts(baseFs({src}) @@ sourceTree(src, T, <<"f">>),
                  copyThenScans(src, join(src, sub), DefaultOptions, FALSE), Posix)

\* a copy of a file to a path that is absent, a file or a directory
InitCopyFile ==
    \E src \in SourceRoots, dest \in DestRoots,
       there \in {"absent", "file", "dir"},
       overwrite \in {"unset", "true", "false"},
       errorOnExist \in BOOLEAN :
        starts(baseFs({src, dest}) @@ (src :> File(src, "644"))
               @@ (CASE there = "file" -> (dest :> File(OldContent, "600"))
                     [] there = "dir"  -> (dest :> Dir("700"))
                     [] OTHER       -> <<>>),
               copyThenScans(src, dest,
                             [DefaultOptions EXCEPT !.overwrite = overwrite,
                                                    !.errorOnExist = errorOnExist],
                             FALSE),
               Posix)

\* a copy of a link to a path that is absent, a link with the same target,
\* a link with another target, or a file
InitCopyLink ==
    \E there \in {"absent", "same", "other", "file"},
       overwrite \in {"unset", "false"} :
        starts(baseFs({P(<<"a">>), P(<<"t">>)}) @@ (P(<<"a">>) :> Link(<<"k">>))
               @@ (CASE there = "same"  -> (P(<<"t">>) :> Link(<<"k">>))
                     [] there = "other" -> (P(<<"t">>) :> Link(OldTarget))
                     [] there = "file"  -> (P(<<"t">>) :> File(OldContent, "600"))
                     [] OTHER           -> <<>>),
               <<copyOf(P(<<"a">>), P(<<"t">>),
                        [DefaultOptions EXCEPT !.overwrite = overwrite])>>,
               Posix)

\* a copy of a file or of a tree to its own path
InitCopySelf ==
    \E src \in SourceRoots, root \in {"file", "dir"},
       overwrite \in {"unset", "false"} :
      \E T \in treesOf(src, MaxCopyEntries) :
        /\ root = "file" => T = {}
        /\ starts(baseFs({src})
                  @@ (IF root = "dir" THEN sourceTree(src, T, <<"f">>)
                      ELSE (src :> File(src, "644"))),
                  <<copyOf(src, src, [DefaultOptions EXCEPT !.overwrite = overwrite])>>,
                  Posix)

\* a copy of the tree of FilterTree to its directory d, which holds an
\* entry under the name of an entry of the tree
InitCopyInto ==
    \E src \in SourceRoots :
        starts(baseFs({src}) @@ sourceTree(src, FilterTree(src), <<"f">>),
               <<copyOf(src, join(src, <<"d">>), DefaultOptions)>>,
               Posix)

\* the destinations outside /x/a that hold its text: one that repeats its
\* last two names, and one whose name starts with its name
FarRoots == {P(<<"y", "x", "a", "z">>), P(<<"x">>) \o sep \o <<"a", "b">>}

\* a copy of the tree /x/a to one of the destinations of FarRoots, absent
InitCopyFar ==
    \E dest \in FarRoots :
      \E T \in treesOf(P(<<"x", "a">>), MaxCopyEntries) :
        starts(baseFs({P(<<"x", "a">>), dest})
               @@ sourceTree(P(<<"x", "a">>), T, <<"f">>),
               <<copyOf(P(<<"x", "a">>), dest, DefaultOptions)>>,
               Posix)

InitCopy ==
    \/ InitCopyTree
    \/ InitCopyFilter
    \/ InitCopyCycle
    \/ InitCopyFile
    \/ InitCopyLink
    \/ InitCopySelf
    \/ InitCopyInto
    \/ InitCopyFar

Init == InitCopy \/ InitRemove \/ InitRecovery \/ InitScan

Spec == Init /\ [][Next]_vars

SpecCopy == InitCopy /\ [][NextCopy \/ NextScan]_vars

SpecRemove == InitRemove /\ [][NextRemove]_vars

FairSpecRemove == SpecRemove /\ WF_vars(NextRemove)

SpecRecovery == InitRecovery /\ [][NextRemove \/ NextRecovery]_vars

FairSpecRecovery == SpecRecovery /\ WF_vars(NextRemove \/ NextRecovery)

SpecScan == InitScan /\ [][NextScan]_vars

(***************************************************************************)
(* Properties.                                                             *)
(***************************************************************************)
\* the running call, or the last one made, is a call of op
calling(op) == ci > 0 /\ script[ci].op = op

\* the call has reported: its promise is settled
reported == ci > 0 /\ tasks[1].st # "run"

succeeded == reported /\ tasks[1].st = "ok"

failedWith(e) == reported /\ tasks[1].st = "err" /\ tasks[1].err = e

\* what is at the path p in f, links not followed
entry(f, p) == lstat(f, p).stats

\* the call is a copy of a directory to a path strictly inside it
cyclicCall ==
    /\ calling("copy")
    /\ entry(fs0, resolve(script[ci].source)).kind = "dir"
    /\ inside(resolve(script[ci].dest), resolve(script[ci].source))

\* C1: a copy of a directory to a path strictly inside it, at any depth of
\* the directory and also for a directory that is a child of the root, never
\* changes the filesystem, and fails with the cyclic-copy error.
C1_CycleGuard ==
    cyclicCall => /\ fs = fs0
                  /\ reported => failedWith("CyclicCopy")

\* the copy of the regular file S to D by task t
fileCopy(t) ==
    /\ calling("copy")
    /\ tasks[t].fn = "startCopy"
    /\ tasks[t].kind = "file"
    /\ tasks[t].pc # "stat.target"
    /\ entry(fs0, tasks[t].path).kind = "file"

ended(t) == tasks[t].st # "run"

copied(t) ==
    /\ tasks[t].st = "ok"
    /\ entry(fs, tasks[t].target).kind = "file"
    /\ entry(fs, tasks[t].target).content = entry(fs0, tasks[t].path).content

unchanged(p) == entry(fs, p) = entry(fs0, p)

overwrites == script[ci].options.overwrite \in {"true", "unset"}

\* what copyFile does at the target startCopy computed, for every file of a
\* copy: without overwrite an older file there is never changed, and the
\* step succeeds, or with errorOnExist fails with the already-exists error;
\* with overwrite, or at a target that is absent, the step succeeds and the
\* target has the content of the source
OverwritePolicyAtTarget ==
    \A t \in 1..Len(tasks) :
        fileCopy(t) =>
            /\ entry(fs0, tasks[t].target).kind = "file" /\ ~overwrites
                   => /\ unchanged(tasks[t].target)
                      /\ ended(t) =>
                             IF script[ci].options.errorOnExist
                             THEN tasks[t].st = "err" /\ tasks[t].err = "AlreadyExists"
                             ELSE tasks[t].st = "ok"
            /\ entry(fs0, tasks[t].target).kind = "file" /\ overwrites
                   => (ended(t) => copied(t))
            /\ entry(fs0, tasks[t].target).kind = "none"
                   => (ended(t) => copied(t))

\* the source and the destination of the call, resolved
sourceOfCall == resolve(script[ci].source)

destOfCall == resolve(script[ci].dest)

\* the call is a copy of a regular file
fileCall == calling("copy") /\ entry(fs0, sourceOfCall).kind = "file"

\* the destination of the call is a file with the content of its source
destHasContent ==
    /\ entry(fs, destOfCall).kind = "file"
    /\ entry(fs, destOfCall).content = entry(fs0, sourceOfCall).content

\* C2: a copy of a regular file S to a destination D that is a file: without
\* overwrite, D is never changed, and the copy succeeds, or with errorOnExist
\* fails with the already-exists error; with overwrite, given or by default,
\* the copy succeeds and D then has the content of S.  To a D that is absent,
\* the copy succeeds and D then has the content of S, whatever the options.
C2_OverwritePolicy ==
    fileCall =>
        /\ entry(fs0, destOfCall).kind = "file" /\ ~overwrites
               => /\ unchanged(destOfCall)
                  /\ reported => IF script[ci].options.errorOnExist
                                  THEN failedWith("AlreadyExists")
                                  ELSE succeeded
        /\ entry(fs0, destOfCall).kind = "file" /\ overwrites
               => (reported => succeeded /\ destHasContent)
        /\ entry(fs0, destOfCall).kind = "none"
               => (reported => succeeded /\ destHasContent)

\* C3: a remove of a path that is absent succeeds, and so does the second of
\* two removes of the same path in a row.
C3_RemoveIdempotent ==
    calling("remove") /\ reported
        => (entry(fs0, script[ci].source).kind = "none" \/ ci = 2 => succeeded)

\* the second remove of a path has succeeded, the first one having found a
\* directory with entries there
C3_Witness ==
    /\ calling("remove") /\ ci = 2 /\ succeeded
    /\ script[1] = script[2]
    /\ entry(fs0, script[ci].source).kind = "none"
    /\ outcomes[1].st = "ok"
    /\ entry(outcomes[1].fs0, script[1].source).kind = "dir"
    /\ readdir(outcomes[1].fs0, script[1].source).files # {}

\* nothing is left at p or below it
gone(p) == \A q \in DOMAIN fs : q # p /\ ~inside(q, p)

\* every entry is in a directory that is there
wellFormed(f) == \A q \in DOMAIN f : q # sep => dirname(q) \in DOMAIN f

\* C4: a remove of a tree of files, links and directories, on a platform
\* whose rmdir refuses a directory that is not empty, eventually succeeds;
\* when it has, nothing is left at the path or below it; and no directory
\* goes while an entry of it is still there.
C4_RemovePostcondition ==
    /\ [](calling("remove") /\ succeeded => gone(script[ci].source))
    /\ [](wellFormed(fs))
    /\ (calling("remove") /\ ~reported) ~> (calling("remove") /\ succeeded)

\* a remove has succeeded on a directory that held a directory with an entry
C4_Witness ==
    /\ calling("remove") /\ ci = 1 /\ succeeded
    /\ gone(script[ci].source)
    /\ \E q \in DOMAIN fs0 :
           /\ inside(q, script[ci].source)
           /\ inside(dirname(q), script[ci].source)

\* the path p, at or below the directory from, as a path relative to it
relativeTo(p, from) == sliceFrom(p, Len(from))

\* the paths of a scan result relative to the root of the scan
relativePaths(result, root) == {relativeTo(p, root) : p \in DOMAIN result}

\* the calls were copy(T, T2), scan(T), scan(T2), the copy with the default
\* options to a T2 that was absent and outside T, and succeeded; and the
\* scans are over
roundTrip ==
    /\ ci = 3 /\ quiet
    /\ script[1].op = "copy" /\ script[2].op = "scan" /\ script[3].op = "scan"
    /\ script[2].source = script[1].source
    /\ script[3].source = script[1].dest
    /\ script[1].options = DefaultOptions
    /\ script[2].options = DefaultOptions /\ script[3].options = DefaultOptions
    /\ entry(outcomes[1].fs0, script[1].dest).kind = "none"
    /\ script[1].dest # script[1].source
    /\ ~inside(script[1].dest, script[1].source)
    /\ outcomes[1].st = "ok"

\* the entries of the two scan results at the relative path q are alike
alike(q) ==
    /\ results[2][script[1].source \o q].kind = results[3][script[1].dest \o q].kind
    /\ results[2][script[1].source \o q].content
           = results[3][script[1].dest \o q].content
    /\ results[2][script[1].source \o q].target
           = results[3][script[1].dest \o q].target

\* C5: after a successful copy(T, T2) with the default options, T2 absent
\* before and outside T, scan(T2) and scan(T) give the same set of paths
\* relative to their roots, and each relative path has the same kind in
\* both, the same content if a file and the same target if a link.
C5_RoundTrip ==
    roundTrip =>
        /\ relativePaths(results[3], script[1].dest)
               = relativePaths(results[2], script[1].source)
        /\ \A q \in relativePaths(results[2], script[1].source) : alike(q)

\* the depth of the path p below the directory root
depthBelow(p, root) == Len(components(p)) - Len(components(root))

\* the call is a scan with a depthLimit
boundedScan == calling("scan") /\ script[ci].options.hasDepthLimit

\* the scanDeep t has listed its directory, or is about to
enumerates(t) ==
    /\ tasks[t].fn = "scanDeep"
    /\ tasks[t].pc = "readdir" \/ kids(tasks, t) # {}

\* C6: a scan with a depthLimit d, started at level 0, never records an
\* entry that is deeper than d below the root of the scan, and never lists
\* the entries of a directory at the depth d or deeper.
C6_DepthUpperBound ==
    boundedScan =>
        /\ \A p \in DOMAIN results[ci] :
               depthBelow(p, sourceOfCall) <= script[ci].options.depthLimit
        /\ \A t \in 1..Len(tasks) :
               enumerates(t) =>
                   depthBelow(tasks[t].path, sourceOfCall) < script[ci].options.depthLimit

\* a scan with the depthLimit 1 is over: it has recorded a directory at the
\* depth 1, and no entry of that directory, which has one
C6_Witness ==
    /\ boundedScan /\ succeeded /\ quiet
    /\ script[ci].options.depthLimit = 1
    /\ \E p \in DOMAIN results[ci], q \in DOMAIN fs :
           /\ depthBelow(p, sourceOfCall) = 1
           /\ results[ci][p].kind = "dir"
           /\ dirname(q) = p
           /\ q \notin DOMAIN results[ci]

\* the path p is the root of the scan or below it
scanned(p) == p = sourceOfCall \/ inside(p, sourceOfCall)

\* C7: every scanDeep of an entry of a directory is given the level of the
\* scanDeep of that directory plus one, whatever the place of the entry among
\* the entries; and a scan with a depthLimit d, started at level 0, that has
\* succeeded has recorded every entry at a depth of 0 to d that passes the
\* filter, whether the filter passes the directories above it or not.
C7_DepthComplete ==
    calling("scan") =>
        /\ \A t \in 1..Len(tasks) :
               tasks[t].parent # 0 => tasks[t].level = tasks[tasks[t].parent].level + 1
        /\ boundedScan /\ succeeded /\ quiet =>
               \A p \in DOMAIN fs :
                   /\ scanned(p)
                   /\ depthBelow(p, sourceOfCall) <= script[ci].options.depthLimit
                   /\ scanFilter(script[ci].options, p)
                   => p \in DOMAIN results[ci]

\* the call is a copy with a filter that rejects some path
filteredCopy == calling("copy") /\ script[ci].options.reject # {}

\* the entries of the source of the copy, as they were when it was called
sourceEntries == {p \in DOMAIN fs0 : p = sourceOfCall \/ inside(p, sourceOfCall)}

\* the filter rejects p or a directory above it
pruned(p) == \E r \in script[ci].options.reject : p = r \/ inside(p, r)

\* where the source entry p belongs in the destination, and where startCopy
\* puts it
places(p) == {rebase(p, sourceOfCall, destOfCall), targetOf(p, options)}

\* the entry at q is a copy of the source entry p
copyOfEntry(q, p) ==
    /\ entry(fs, q).kind = entry(fs0, p).kind
    /\ entry(fs0, p).kind = "file" => entry(fs, q).content = entry(fs0, p).content
    /\ entry(fs0, p).kind = "link" => entry(fs, q).target = entry(fs0, p).target

\* C8: in a copy with a filter, nothing is ever created or changed in the
\* destination for a source entry the filter rejects or for an entry below a
\* directory it rejects; and once the copy has succeeded, every other entry
\* of the source has been copied.
C8_FilterPrunes ==
    filteredCopy =>
        /\ \A p \in sourceEntries :
               pruned(p) => \A q \in places(p) : unchanged(q)
        /\ succeeded /\ quiet =>
               \A p \in sourceEntries :
                   ~pruned(p) => copyOfEntry(targetOf(p, options), p)

\* a copy whose filter rejects a directory that holds an entry has
\* succeeded: a sibling of the directory has been copied, and neither the
\* directory nor its entry is in the destination
C8_Witness ==
    /\ filteredCopy /\ succeeded /\ quiet
    /\ \E r \in script[ci].options.reject, x, y \in sourceEntries :
           /\ entry(fs0, r).kind = "dir"
           /\ dirname(x) = r
           /\ dirname(y) = dirname(r) /\ ~pruned(y)
           /\ copyOfEntry(targetOf(y, options), y)
           /\ \A q \in places(r) \union places(x) : entry(fs, q).kind = "none"

\* the source entry p is a link with a relative target that led to an entry
\* when the copy was called
relativeLink(p) ==
    /\ entry(fs0, p).kind = "link"
    /\ ~isAbsolute(entry(fs0, p).target)
    /\ stat(fs0, p).err = ""

\* C9: once a copy that recreates links has succeeded, the link it has
\* created for a source link with a relative target that led to an entry
\* leads to an entry too, whatever the depths of the source and of the
\* destination.
C9_SymlinkFidelity ==
    calling("copy") /\ ~script[ci].options.dereference /\ succeeded /\ quiet =>
        \A p \in sourceEntries :
            relativeLink(p) /\ ~pruned(p) =>
                /\ entry(fs, targetOf(p, options)).kind = "link"
                /\ stat(fs, targetOf(p, options)).err = ""

\* C10: in a copy, a remove or a scan, a step that has reported, with
\* success or with failure, has no step started for an entry of its directory
\* that is still running; so that the call has reported only when nothing it
\* started is still running.
C10_FanOutJoin ==
    \A t \in 1..Len(tasks) :
        tasks[t].st # "run" => \A c \in kids(tasks, t) : tasks[c].st # "run"

\* the remove t is in the recovery of a permission-denied failure, or was
recovering(t) == tasks[t].fn = "remove" /\ tasks[t].recovery # ""

\* the chmod or the stat of the recovery of t has found the entry absent
foundAbsent(t) ==
    /\ recovering(t)
    /\ tasks[t].erOp \in {"chmod", "stat"}
    /\ tasks[t].er = "ENOENT"

\* C11: a remove whose recovery of a permission-denied failure finds, at its
\* chmod or at its stat, that the entry is absent, completes as a success.
C11_VanishedIsSuccess ==
    \A t \in 1..Len(tasks) : foundAbsent(t) => tasks[t].st = "ok"

\* the remove t has completed
completed(t) == tasks[t].fn = "remove" /\ tasks[t].st # "run"

\* C12: on Windows, a remove whose lstat or unlink failed with EPERM and
\* whose recovery (chmod, stat, then removeDir or unlink) succeeded reports
\* success with nothing left at its path; it reports EPERM only when the
\* recovery has failed; and it enters the recovery at most once.
C12_RecoveryRetry ==
    \A t \in 1..Len(tasks) :
        recovering(t) /\ platform.isWindows =>
            /\ tasks[t].recoveries <= 1
            /\ completed(t) /\ tasks[t].recovery = "ok" =>
                   tasks[t].st = "ok" /\ gone(tasks[t].path)
            /\ completed(t) /\ tasks[t].st = "err" /\ tasks[t].err = "EPERM" =>
                   tasks[t].recovery = "err"

\* the recovery of a failed lstat has removed a directory with its entries,
\* and the recovery of a failed unlink has removed a file
C12_Witness ==
    /\ platform.isWindows
    /\ \E t \in 1..Len(tasks) :
           /\ completed(t) /\ tasks[t].recovery = "ok" /\ tasks[t].st = "ok"
           /\ tasks[t].originalEr = "EPERM"
           /\ entry(fs0, tasks[t].path).kind = "dir"
           /\ readdir(fs0, tasks[t].path).files # {}
           /\ gone(tasks[t].path)
    /\ \E t \in 1..Len(tasks) :
           /\ completed(t) /\ tasks[t].recovery = "ok" /\ tasks[t].st = "ok"
           /\ entry(fs0, tasks[t].path).kind = "file"
           /\ gone(tasks[t].path)

\* the rmdir of removeDir, the first delete of the remove t, has failed with e
firstRmdirFailed(t, e) ==
    /\ tasks[t].fn = "remove"
    /\ tasks[t].attempts = 1
    /\ tasks[t].erOp = "rmdir"
    /\ tasks[t].er = e

\* C13: a remove whose first rmdir of a directory fails with EBUSY does not
\* fail with that error: it goes on to the entries of the directory, as it
\* does for ENOTEMPTY.
C13_BusyFallsBack ==
    \A t \in 1..Len(tasks) :
        firstRmdirFailed(t, "EBUSY") =>
            ~(tasks[t].st = "err" /\ tasks[t].err = "EBUSY")

\* the error codes that are none of busy or locked, not empty, exists and
\* not found
Unrecognized == {"EIO", "ENOTDIR"}

\* C14: a remove one of whose calls (lstat, unlink, rmdir, readdir, chmod,
\* stat) fails with an error that is none of busy or locked, not empty,
\* exists and not found, fails, and with that very error.
C14_UnrecognizedPropagates ==
    \A t \in 1..Len(tasks) :
        tasks[t].fn = "remove" /\ tasks[t].er \in Unrecognized =>
            tasks[t].st = "err" /\ tasks[t].err = tasks[t].er

\* the startCopy t has just computed its target, line 110
targetComputed(t) ==
    /\ tasks[t].fn = "startCopy"
    /\ tasks[t].pc \in {"copyDir.isWritable", "stat.target"}

\* C15: the target startCopy computes for a source path, the resolved source
\* root followed by a suffix, is the resolved destination root followed by
\* that suffix, whatever characters the destination root holds.
C15_LiteralSubstitution ==
    \A t \in 1..Len(tasks) :
        targetComputed(t) =>
            tasks[t].target
                = rebase(tasks[t].path, options.currentPath, options.targetPath)

\* the startCopy t is the copy of a link that has ended, at a target where
\* a link or a file was before the call
linkCopiedOnto(t) ==
    /\ tasks[t].fn = "startCopy"
    /\ tasks[t].kind = "link"
    /\ tasks[t].st # "run"
    /\ entry(fs0, tasks[t].target).kind \in {"link", "file"}

\* C16: the copy of a link to a target that is a link or a file succeeds
\* and leaves at the target a link with the text the copy intends, whatever
\* was there.
C16_LinkOntoExisting ==
    \A t \in 1..Len(tasks) :
        linkCopiedOnto(t) =>
            /\ tasks[t].st = "ok"
            /\ entry(fs, tasks[t].target).kind = "link"
            /\ readlink(fs, tasks[t].target).link = tasks[t].resolvedPath

\* the entry at p is there as it was before the call
kept(p) == p \in DOMAIN fs /\ fs[p] = fs0[p]

\* the entries of the source of the call before it: the source, and what
\* is below it
sourceBefore ==
    {p \in DOMAIN fs0 : p = resolve(script[ci].source)
                           \/ inside(p, resolve(script[ci].source))}

\* C17: after a copy, whatever its destination and its options, and whether
\* it has succeeded or failed, every entry the source held before the call
\* is there with the kind, content, link target and mode it had.
C17_SourceIntact ==
    calling("copy") /\ reported => \A p \in sourceBefore : kept(p)

\* the entries below the destination of the call before it, and the
\* destination itself
destBefore ==
    {p \in DOMAIN fs0 : p = resolve(script[ci].dest)
                           \/ inside(p, resolve(script[ci].dest))}

\* C18: after a copy with overwrite false, every entry that was at or below
\* the destination before the call is there with the kind, content, link
\* target and mode it had.
C18_NoOverwriteProtects ==
    calling("copy") /\ reported /\ script[ci].options.overwrite = "false" =>
        \A p \in destBefore : kept(p)

\* the startCopy t has raised the cyclic-copy error itself: none of the
\* tasks it awaits has
raisedCyclic(t) ==
    /\ tasks[t].fn = "startCopy"
    /\ tasks[t].st = "err"
    /\ tasks[t].err = "CyclicCopy"
    /\ \A c \in kids(tasks, t) : tasks[c].err # "CyclicCopy"

\* C19: copyDir raises the cyclic-copy error for a directory only when the
\* target computed for it is strictly inside that directory.
C19_NoFalseCycle ==
    \A t \in 1..Len(tasks) :
        raisedCyclic(t) =>
            \E target \in {targetOf(tasks[t].path, options)} :
                inside(resolve(target), resolve(tasks[t].path))

\* C20: a remove of a tree, whatever failures its calls meet, a platform
\* that answers every unlink and rmdir with EPERM, ENOTEMPTY or EEXIST
\* included, eventually reports; the remove of an entry makes at most three
\* calls of unlink and rmdir on it; and it enters fixWinEPERM at most once.
C20_RemoveTerminates ==
    /\ [](\A t \in 1..Len(tasks) :
             tasks[t].fn = "remove" =>
                 tasks[t].attempts <= 3 /\ tasks[t].recoveries <= 1)
    /\ (calling("remove") /\ ~reported) ~> (calling("remove") /\ reported)

\* on Windows, on a platform that answers every delete with EPERM, a remove
\* of a file has reported EPERM after the unlink of rimraf and the unlink of
\* fixWinEPERM
C20_Witness ==
    /\ calling("remove") /\ failedWith("EPERM")
    /\ platform.isWindows /\ platform.deleteError = "EPERM"
    /\ tasks[1].attempts = 2 /\ tasks[1].recoveries = 1
    /\ entry(fs, script[ci].source).kind = "file"

====
